---- MODULE Spec2Model ----
(***************************************************************************)
(* A model of commodities_dashboard.py: the per-instrument fetch, the      *)
(* TTL-memoised fetch-all, the summary builder, the compliance currency    *)
(* conversion and the PDF snapshot generator.                              *)
(*                                                                         *)
(* Representation of Python values                                         *)
(*   None            the record None                                       *)
(*   float / int     Num(n); prices and closes are fixed-point numbers in  *)
(*                   thousandths (100.0 is Num(100000)), "Change %" is in   *)
(*                   hundredths of a percent, "Last Price (USD)" in        *)
(*                   ten-thousandths (the code rounds it to 4 decimals)    *)
(*   NaN             the record NaN                                        *)
(*   DataFrame       [kind |-> "DataFrame", columns, rows]; a row is       *)
(*                   [Close, Volume, isna], isna marking a row whose every *)
(*                   column is NaN (what dropna(how="all") removes)        *)
(*   dict            a sequence of [name, value] items in insertion order  *)
(*   str             a TLA+ string; the euro and pound signs of the unit   *)
(*                   labels are written "(euro)" and "(pound)"             *)
(* Arithmetic is exact (the reals), not IEEE binary floating point.        *)
(***************************************************************************)
EXTENDS Integers, Sequences, FiniteSets, TLC

VARIABLES
    pc,               \* what the program did last
    days,             \* the lookback window of the sidebar (line 148)
    catalog,          \* the catalog given to fetch_yfinance
    upstream,         \* what yf.download did for each request of the last fetch
    results,          \* fetch_yfinance's returned dict
    downloads,        \* yf.download calls made by the last fetch, in order
    raised,           \* whether the last operation raised
    rows,             \* summary_from_yf_dict's table
    commod_data,      \* module-level globals of line 161
    fx_data,
    compliance_data,
    to_usd,           \* convert_to == "USD"
    comp_df,          \* compliance_summary_table's table
    now,              \* the clock the caches read, in seconds
    cache,            \* st.cache_data store of fetch_all_data
    yf_cache,         \* st.cache_data store of fetch_yfinance
    last_call,        \* the last fetch_all_data call: what the lookup found and
                      \* the downloads it made
    pages             \* the pages generate_pdf_snapshot saved, in order

vars == <<pc, days, catalog, upstream, results, downloads, raised, rows, commod_data,
          fx_data, compliance_data, to_usd, comp_df, now, cache, yf_cache, last_call, pages>>

----------------------------------------------------------------------------
(* Bounds of the model *)

\* instruments of a catalog that one fetch_yfinance call is given
NInstr == 3
\* rows of a DataFrame given to summary_from_yf_dict
MaxLen == 2
\* records of the compliance dict given to compliance_summary_table
MaxRecords == 2
\* the clock stops here
MaxClock == 3600
\* commodity series given to generate_pdf_snapshot (more than max_plots), and
\* FX series and compliance records given to it
NTrend == 7
NOther == 1

----------------------------------------------------------------------------
(* Python values *)

None == [kind |-> "None"]
NaN == [kind |-> "nan"]
Num(n) == [kind |-> "num", val |-> n]
IsNum(v) == v.kind = "num"

\* a ticker that is None (compliance_markets, lines 69-81)
NoTicker == "<None>"

Row(c, v) == [Close |-> c, Volume |-> v, isna |-> FALSE]
NaRow == [Close |-> 0, Volume |-> 0, isna |-> TRUE]
DataFrame(cols, rs) == [kind |-> "DataFrame", columns |-> cols, rows |-> rs]
OHLCV == {"Close", "Volume"}

IsDataFrame(v) == v.kind = "DataFrame"
\* df.empty
empty(df) == df.rows = <<>>
\* df.dropna(how="all")
dropna(df) == DataFrame(df.columns, SelectSeq(df.rows, LAMBDA r : ~r.isna))
\* df[col].iloc[-1] and df[col].iloc[-2] as a float: NaN on an all-NaN row
Cell(r, col) == IF r.isna THEN NaN ELSE Num(IF col = "Close" THEN r.Close ELSE r.Volume)
iloc(df, col, back) == Cell(df.rows[Len(df.rows) + 1 - back], col)

SeqsUpTo(S, n) == UNION {[1..k -> S] : k \in 0..n}
Prefix(s, n) == SubSeq(s, 1, IF n < Len(s) THEN n ELSE Len(s))

\* "sub in s" on Python strings
Contains(sub, s) ==
    \E i \in 1..(Len(s) - Len(sub) + 1) : SubSeq(s, i, i + Len(sub) - 1) = sub

\* n / d rounded to the nearest integer, ties to even (Python's round)
RoundDiv(n, d) ==
    LET nn == IF d < 0 THEN -n ELSE n
        dd == IF d < 0 THEN -d ELSE d
        q == nn \div dd
        r == nn % dd
    IN  IF 2 * r < dd THEN q
        ELSE IF 2 * r > dd THEN q + 1
        ELSE IF q % 2 = 0 THEN q ELSE q + 1

----------------------------------------------------------------------------
(* SYMBOLS / CONFIG *)

Entry(n, t) == [name |-> n, ticker |-> t]

commodities == <<
    Entry("Crude Oil (WTI)", "CL=F"),
    Entry("Brent Oil", "BZ=F"),
    Entry("Natural Gas (Henry Hub, US)", "NG=F"),
    Entry("EU Gas (TTF)", "TTF=F"),
    Entry("LNG (JKM, Asia proxy)", "JKM=F"),
    Entry("Gold", "GC=F"),
    Entry("Silver", "SI=F"),
    Entry("Copper", "HG=F"),
    Entry("Aluminum", "ALI=F"),
    Entry("Corn", "ZC=F"),
    Entry("Wheat", "ZW=F"),
    Entry("Soybeans", "ZS=F"),
    Entry("Coffee", "KC=F"),
    Entry("Cocoa", "CC=F"),
    Entry("Live Cattle (Beef)", "LE=F"),
    Entry("Ethylene (proxy)", "ETHUSD=X") >>

currencies == <<
    Entry("GBP/USD", "GBPUSD=X"),
    Entry("EUR/USD", "EURUSD=X"),
    Entry("USD/BRL", "USDBRL=X"),
    Entry("USD/CNY", "USDCNY=X"),
    Entry("USD/JPY", "USDJPY=X"),
    Entry("USD/NOK", "USDNOK=X"),
    Entry("USD/CAD", "USDCAD=X"),
    Entry("USD/AUD", "AUDUSD=X"),
    Entry("CHF/USD", "CHFUSD=X") >>

Market(n, t, u) == [name |-> n, ticker |-> t, unit |-> u]

compliance_markets == <<
    Market("EU ETS (EUA)", "C02.F", "(euro)/t"),
    Market("UK ETS", NoTicker, "(pound)/t"),
    Market("California (CARB)", NoTicker, "US$/t"),
    Market("RGGI", NoTicker, "US$/t"),
    Market("New Zealand (NZ ETS)", NoTicker, "NZ$/t"),
    Market("South Korea (K-ETS)", NoTicker, "KRW/t"),
    Market("China National ETS", NoTicker, "RMB/t"),
    Market("Core Carbon Principles (CCP)", NoTicker, "US$/t"),
    Market("CORSIA (Phase 1)", NoTicker, "US$/t"),
    Market("CBL Global (GEO)", "GEO=F", "US$/t"),
    Market("CBL Nature-Based (NGO)", "NGO=F", "US$/t"),
    Market("ICE Nature-Based", NoTicker, "US$/t"),
    Market("California Air Resources Board (ARB) - Allowance", NoTicker, "US$/t"),
    Market("Australia ACCU", NoTicker, "A$/t") >>

Names(cat) == [i \in 1..Len(cat) |-> cat[i].name]
TickersOf(cat) == {cat[i].ticker : i \in 1..Len(cat)} \ {NoTicker}

\* dict access on an items sequence
Keys(d) == [i \in 1..Len(d) |-> d[i].name]
Has(d, k) == \E i \in 1..Len(d) : d[i].name = k
Get(d, k) == d[CHOOSE i \in 1..Len(d) : d[i].name = k].value
Item(k, v) == [name |-> k, value |-> v]

----------------------------------------------------------------------------
(* HELPERS: Fetch data *)

\* What yf.download does for one ticker: it raises, returns None, or returns a
\* DataFrame (possibly empty, possibly with all-NaN rows).
Raise == [kind |-> "raise", msg |-> "download failed"]

\* One pass of the loop body of fetch_yfinance (lines 95-106) for catalog
\* entry e, on the state st = [results, downloads]; yf[<<ticker, period_days>>]
\* is what yf.download does for that request.
FetchBody(st, e, period_days, yf) ==
    IF e.ticker = NoTicker THEN st
    ELSE LET df == yf[<<e.ticker, period_days>>]
             dl == Append(st.downloads, <<e.ticker, period_days>>)
         IN  IF df.kind = "raise"
                 THEN [results |-> Append(st.results, Item(e.name, None)), downloads |-> dl]
             ELSE IF df = None \/ empty(df)
                 THEN [results |-> st.results, downloads |-> dl]
             ELSE [results |-> Append(st.results, Item(e.name, dropna(df))), downloads |-> dl]

RECURSIVE FetchLoop(_, _, _, _, _)
FetchLoop(st, tickers, i, period_days, yf) ==
    IF i > Len(tickers) THEN st
    ELSE FetchLoop(FetchBody(st, tickers[i], period_days, yf), tickers, i + 1, period_days, yf)

\* fetch_yfinance(tickers, period_days) against the upstream yf: the dict it
\* returns and the downloads it made. No statement of it can raise past the
\* try of lines 98-106.
fetch_yfinance(tickers, period_days, yf) ==
    FetchLoop([results |-> <<>>, downloads |-> <<>>], tickers, 1, period_days, yf)

----------------------------------------------------------------------------
(* Summary builder *)

SummaryRow(name, last, pct, vol) ==
    [Asset |-> name, LastPrice |-> last, ChangePct |-> pct, Volume |-> vol]

\* ChangePct with the percentage cut off after 2 decimals instead of rounded
ChangePctTruncated(last, prev) ==
    IF prev > 0 THEN ((last - prev) * 10000) \div prev
    ELSE IF prev < 0 THEN RoundDiv((last - prev) * 10000, prev) ELSE 0

\* (last - prev) / prev * 100 if prev != 0 else 0, then round(pct, 2), in
\* hundredths of a percent
ChangePct(last, prev) ==
    IF prev # 0 THEN RoundDiv((last - prev) * 10000, prev) ELSE 0

\* the loop body of summary_from_yf_dict (lines 167-174) for one item
SummaryOf(name, df) ==
    IF df = None \/ empty(df) THEN SummaryRow(name, None, None, None)
    ELSE LET last == iloc(df, "Close", 1).val
             prev == IF Len(df.rows) > 1 THEN iloc(df, "Close", 2).val ELSE last
             vol == IF "Volume" \in df.columns THEN iloc(df, "Volume", 1) ELSE None
         IN  SummaryRow(name, Num(last), Num(ChangePct(last, prev)), vol)

summary_from_yf_dict(d) == [i \in 1..Len(d) |-> SummaryOf(d[i].name, d[i].value)]

----------------------------------------------------------------------------
(* fetch_all_data and the two st.cache_data(ttl=1800) stores *)

fetch_all_data_ttl == 1800
fetch_yfinance_ttl == 1800

\* fetch_compliance_placeholder(market_key)
fetch_compliance_placeholder(market_key) ==
    [price |-> None, history |-> None, source_note |-> "placeholder - wire an API"]

Record(price, history, unit, note) ==
    [price |-> price, history |-> history, unit |-> unit, source_note |-> note]

\* the loop body of lines 126-141 for one market, on st = [results, downloads]
ComplianceBody(st, m, ndays, yf) ==
    IF m.ticker # NoTicker
    THEN LET df == yf[<<m.ticker, ndays>>]
             dl == Append(st.downloads, <<m.ticker, ndays>>)
             rec == IF df.kind = "raise"
                        THEN Record(None, None, m.unit, "Ticker error: " \o df.msg)
                    ELSE IF df = None \/ empty(df)
                        THEN Record(None, None, m.unit, "Ticker " \o m.ticker \o " returned empty")
                    ELSE Record(iloc(df, "Close", 1), df, m.unit, "Ticker " \o m.ticker)
         IN  [results |-> Append(st.results, Item(m.name, rec)), downloads |-> dl]
    ELSE LET ph == fetch_compliance_placeholder(m.name)
         IN  [results |-> Append(st.results,
                            Item(m.name, Record(ph.price, ph.history, m.unit, ph.source_note))),
              downloads |-> st.downloads]

RECURSIVE ComplianceLoop(_, _, _, _)
ComplianceLoop(st, i, ndays, yf) ==
    IF i > Len(compliance_markets) THEN st
    ELSE ComplianceLoop(ComplianceBody(st, compliance_markets[i], ndays, yf), i + 1, ndays, yf)

\* Fresh with an entry still served at the very end of its time to live
FreshInclusive(entry, ttl, t) == entry # None /\ t - entry.stamp <= ttl

\* An unexpired entry of a st.cache_data store at time t
Fresh(entry, ttl, t) == entry # None /\ t - entry.stamp < ttl

CacheEntry(value, t) == [kind |-> "entry", value |-> value, stamp |-> t]

\* The memoised fetch_yfinance (lines 87-88): the store is keyed by the
\* arguments (which catalog, period_days). Gives the value returned, the
\* downloads made and the store afterwards.
cached_fetch_yfinance(store, which, tickers, period_days, yf, t) ==
    LET key == <<which, period_days>>
    IN  IF Fresh(store[key], fetch_yfinance_ttl, t)
        THEN [value |-> store[key].value, downloads |-> <<>>, store |-> store]
        ELSE LET r == fetch_yfinance(tickers, period_days, yf)
             IN  [value |-> r.results, downloads |-> r.downloads,
                  store |-> [store EXCEPT ![key] = CacheEntry(r.results, t)]]

\* The body of fetch_all_data (lines 120-142) at time t: the triple returned,
\* the downloads made, and fetch_yfinance's store afterwards.
fetch_all_data_body(ndays, yf, store, t) ==
    LET c == cached_fetch_yfinance(store, "commodities", commodities, ndays, yf, t)
        f == cached_fetch_yfinance(c.store, "currencies", currencies, ndays, yf, t)
        k == ComplianceLoop([results |-> <<>>, downloads |-> <<>>], 1, ndays, yf)
    IN  [value |-> <<c.value, f.value, k.results>>,
         downloads |-> c.downloads \o f.downloads \o k.downloads,
         store |-> f.store]

----------------------------------------------------------------------------
(* Currency conversion *)

ComplianceRow(name, unit, price, usd, source, note) ==
    [Market |-> name, Unit |-> unit, LastPriceLocal |-> price, LastPriceUSD |-> usd,
     Source |-> source, Note |-> note]

\* price * fx_last, then round(converted, 4): thousandths times thousandths
\* are millionths, rounded to ten-thousandths
Converted(price, fx_last) ==
    IF IsNum(price) /\ IsNum(fx_last) THEN Num(RoundDiv(price.val * fx_last.val, 100)) ELSE NaN

Conv(converted, note, err) == [converted |-> converted, note |-> note, err |-> err]

\* ConvertUsing with the oldest close of the pair as the multiplier
ConvertUsingFirstClose(fx_pair, price, fx) ==
    IF Has(fx, fx_pair) /\ Get(fx, fx_pair) # None
    THEN IF empty(Get(fx, fx_pair))
         THEN Conv(None, "", TRUE)
         ELSE Conv(Converted(price, iloc(Get(fx, fx_pair), "Close", Len(Get(fx, fx_pair).rows))),
                   "converted using " \o fx_pair, FALSE)
    ELSE Conv(None, "", FALSE)

\* lines 200-205 and 208-212: the pair is looked up in the module-level
\* fx_data; .iloc[-1] on an empty frame raises IndexError
ConvertUsing(fx_pair, price, fx) ==
    IF Has(fx, fx_pair) /\ Get(fx, fx_pair) # None
    THEN IF empty(Get(fx, fx_pair))
         THEN Conv(None, "", TRUE)
         ELSE Conv(Converted(price, iloc(Get(fx, fx_pair), "Close", 1)),
                   "converted using " \o fx_pair, FALSE)
    ELSE Conv(None, "", FALSE)

\* ConvertBranch with a branch that passes a US$ price through as the USD price
ConvertBranchUsdIdentity(name, unit, price, fx) ==
    IF Contains("NZ$", unit)
        THEN Conv(None, "(conversion not available - add USD/NZD pair)", FALSE)
    ELSE IF Contains("A$", unit) \/ Contains("A$", name)
        THEN Conv(None, "(conversion not available - add USD/AUD pair)", FALSE)
    ELSE IF Contains("KRW", unit)
        THEN Conv(None, "(conversion not available - add USDKRW pair)", FALSE)
    ELSE IF Contains("RMB", unit) \/ Contains("CNY", unit)
        THEN ConvertUsing("USD/CNY", price, fx)
    ELSE IF Contains("(pound)", unit)
        THEN ConvertUsing("GBP/USD", price, fx)
    ELSE IF Contains("US$", unit)
        THEN Conv(Converted(price, Num(1000)), "", FALSE)
    ELSE Conv(None, "", FALSE)

\* lines 188-212: converted and conv_note for a record with a price, to_usd set
ConvertBranch(name, unit, price, fx) ==
    IF Contains("NZ$", unit)
        THEN Conv(None, "(conversion not available - add USD/NZD pair)", FALSE)
    ELSE IF Contains("A$", unit) \/ Contains("A$", name)
        THEN Conv(None, "(conversion not available - add USD/AUD pair)", FALSE)
    ELSE IF Contains("KRW", unit)
        THEN Conv(None, "(conversion not available - add USDKRW pair)", FALSE)
    ELSE IF Contains("RMB", unit) \/ Contains("CNY", unit)
        THEN ConvertUsing("USD/CNY", price, fx)
    ELSE IF Contains("(pound)", unit)
        THEN ConvertUsing("GBP/USD", price, fx)
    ELSE Conv(None, "", FALSE)

\* ComplianceRowOf converting whatever the to_usd flag says
ComplianceRowOfIgnoringFlag(name, meta, usd, fx) ==
    IF meta.price # None
    THEN LET c == ConvertBranch(name, meta.unit, meta.price, fx)
         IN  [err |-> c.err,
              row |-> ComplianceRow(name, meta.unit, meta.price, c.converted,
                                    meta.source_note, c.note)]
    ELSE [err |-> FALSE,
          row |-> ComplianceRow(name, meta.unit, meta.price, None, meta.source_note, "")]

\* the loop body of lines 179-218 for one record
ComplianceRowOf(name, meta, usd, fx) ==
    IF usd /\ meta.price # None
    THEN LET c == ConvertBranch(name, meta.unit, meta.price, fx)
         IN  [err |-> c.err,
              row |-> ComplianceRow(name, meta.unit, meta.price, c.converted,
                                    meta.source_note, c.note)]
    ELSE [err |-> FALSE,
          row |-> ComplianceRow(name, meta.unit, meta.price, None, meta.source_note, "")]

\* compliance_summary_table(compliance_dict, fx_df_for_conv, to_usd): the
\* body never reads fx_df_for_conv, it reads the module-level fx_data. Gives
\* the table, or raised when a row's conversion raises.
compliance_summary_table(compliance_dict, fx_df_for_conv, usd) ==
    LET out == [i \in 1..Len(compliance_dict) |->
                   ComplianceRowOf(compliance_dict[i].name, compliance_dict[i].value, usd, fx_data)]
    IN  IF \E i \in 1..Len(out) : out[i].err
        THEN [raised |-> TRUE, rows |-> <<>>]
        ELSE [raised |-> FALSE, rows |-> [i \in 1..Len(out) |-> out[i].row]]

----------------------------------------------------------------------------
(* PDF export *)

max_plots == 6

TitlePage(ndays) ==
    [kind |-> "title", title |-> "Commodities, FX & Compliance Carbon - Daily Snapshot",
     name |-> "", ndays |-> ndays, nrows |-> 0]
TablePage(title, table) ==
    [kind |-> "table", title |-> title, name |-> "", ndays |-> 0, nrows |-> Len(table)]
TrendPage(title, name) ==
    [kind |-> "trend", title |-> title, name |-> name, ndays |-> 0, nrows |-> 0]
NotesPage ==
    [kind |-> "notes", title |-> "Notes & Data Sources", name |-> "", ndays |-> 0, nrows |-> 0]

\* the loop of add_series_page (lines 343-355) from item i with `plotted`
\* pages saved so far: the pages it saves
RECURSIVE SeriesLoop(_, _, _, _, _)
SeriesLoop(title, series_dict, i, plotted, cap) ==
    IF i > Len(series_dict) THEN <<>>
    ELSE LET df == series_dict[i].value
         IN  IF df = None \/ empty(df)
             THEN SeriesLoop(title, series_dict, i + 1, plotted, cap)
             ELSE IF plotted + 1 >= cap
                  THEN <<TrendPage(title, series_dict[i].name)>>
                  ELSE <<TrendPage(title, series_dict[i].name)>>
                       \o SeriesLoop(title, series_dict, i + 1, plotted + 1, cap)

\* add_series_page stopping one page late
add_series_page_one_more(title, series_dict, cap) ==
    SeriesLoop(title, series_dict, 1, 0, cap + 1)

add_series_page(title, series_dict, cap) == SeriesLoop(title, series_dict, 1, 0, cap)

\* lines 362-366: the histories that are non-empty DataFrames
hist_dict(compliance) ==
    LET keep == SelectSeq(compliance,
                    LAMBDA it : IsDataFrame(it.value.history) /\ ~empty(it.value.history))
    IN  [i \in 1..Len(keep) |-> Item(keep[i].name, keep[i].value.history)]

\* generate_pdf_snapshot: the pages saved into the PdfPages, in order
generate_pdf_snapshot(commod_table, fx_table, comp_table, commod, fx, compliance, ndays) ==
    <<TitlePage(ndays),
      TablePage("Commodities Summary", commod_table),
      TablePage("FX Summary", fx_table),
      TablePage("Compliance Carbon Markets Summary", comp_table)>>
    \o add_series_page("Commodities Trend", commod, max_plots)
    \o add_series_page("FX Trend", fx, max_plots)
    \o (IF hist_dict(compliance) # <<>>
        THEN add_series_page("Compliance Market Trends", hist_dict(compliance), max_plots)
        ELSE <<>>)
    \o <<NotesPage>>

----------------------------------------------------------------------------
(* The state machines *)

\* lookback windows the slider of line 148 (7..180, default 30) is set to
Windows == {7, 30}

NoCall == [lookup |-> "", downloads |-> <<>>]

FetchIdle ==
    /\ catalog = <<>> /\ upstream = <<>> /\ results = <<>> /\ downloads = <<>>
    /\ rows = <<>>
GlobalsIdle ==
    /\ commod_data = <<>> /\ fx_data = <<>> /\ compliance_data = <<>>
    /\ to_usd = TRUE /\ comp_df = <<>>
CacheIdle ==
    /\ now = 0 /\ cache = <<>> /\ yf_cache = <<>> /\ last_call = NoCall
PdfIdle == pages = <<>>

fetchVars == <<catalog, upstream, results, downloads, rows>>
globalVars == <<commod_data, fx_data, compliance_data, to_usd, comp_df>>
cacheVars == <<now, cache, yf_cache, last_call>>

(* ---- fetch_yfinance, then summary_from_yf_dict ---- *)

\* what yf.download can do for one request
Responses ==
    {Raise, None, DataFrame(OHLCV, <<>>), DataFrame(OHLCV, <<NaRow>>),
     DataFrame(OHLCV, <<Row(100000, 1000)>>),
     DataFrame(OHLCV, <<Row(100000, 1000), NaRow, Row(110000, 2000)>>)}

Catalogs == {Prefix(commodities, NInstr), Prefix(currencies, NInstr)}

InitFetch ==
    /\ pc = "start" /\ days = 30 /\ raised = FALSE
    /\ FetchIdle /\ GlobalsIdle /\ CacheIdle /\ PdfIdle

CallFetchYfinance ==
    /\ pc = "start"
    /\ \E cat \in Catalogs, period_days \in Windows :
      \E yf \in [TickersOf(cat) \X {period_days} -> Responses] :
        LET r == fetch_yfinance(cat, period_days, yf)
        IN  /\ pc' = "fetched"
            /\ days' = period_days
            /\ catalog' = cat
            /\ upstream' = yf
            /\ results' = r.results
            /\ downloads' = r.downloads
            /\ rows' = <<>>
            /\ raised' = FALSE
            /\ UNCHANGED <<globalVars, cacheVars, pages>>

CallSummary ==
    /\ pc = "fetched"
    /\ pc' = "summarised"
    /\ rows' = summary_from_yf_dict(results)
    /\ UNCHANGED <<days, catalog, upstream, results, downloads, raised,
                   globalVars, cacheVars, pages>>

\* the script is run again from its top
Rerun ==
    /\ pc = "summarised"
    /\ pc' = "start"
    /\ days' = 30
    /\ catalog' = <<>> /\ upstream' = <<>> /\ results' = <<>> /\ downloads' = <<>>
    /\ rows' = <<>>
    /\ UNCHANGED <<raised, globalVars, cacheVars, pages>>

NextFetch == CallFetchYfinance \/ CallSummary \/ Rerun

SpecFetch == InitFetch /\ [][NextFetch]_vars

(* ---- summary_from_yf_dict on one series ---- *)

CloseVals == {-50000, 0, 19000, 19500, 100000, 110000}
VolumeVals == {0, 1000}

\* the frames fetch_yfinance can store: no all-NaN row is left in them
CleanFrames ==
    {DataFrame(cols, rs) :
        cols \in {OHLCV, {"Close"}},
        rs \in SeqsUpTo({Row(c, v) : c \in CloseVals, v \in VolumeVals}, MaxLen)}

InitSummary ==
    /\ pc = "fetched" /\ days = 30 /\ raised = FALSE
    /\ catalog = Prefix(commodities, 1) /\ upstream = <<>> /\ downloads = <<>>
    /\ rows = <<>>
    /\ results \in {<<Item(catalog[1].name, v)>> : v \in {None} \cup CleanFrames}
    /\ GlobalsIdle /\ CacheIdle /\ PdfIdle

NextSummary == CallSummary

SpecSummary == InitSummary /\ [][NextSummary]_vars

(* ---- compliance_summary_table ---- *)

PriceVals == {80000, 80124}
RateVals == {1250, 1234}

QuoteFrame(r) == DataFrame(OHLCV, <<Row(1000, 0), Row(r, 0)>>)

\* an increasing sequence of the members of a set of indices
RECURSIVE Sorted(_)
Sorted(S) ==
    IF S = {} THEN <<>>
    ELSE LET m == CHOOSE x \in S : \A y \in S : x <= y
         IN  <<m>> \o Sorted(S \ {m})

\* compliance dicts: records of some markets of compliance_markets, in its
\* order, each with the price its feed gave (None from the placeholder)
ComplianceInputs ==
    UNION {
      {LET ix == Sorted(S)
       IN  [i \in 1..Len(ix) |->
              Item(compliance_markets[ix[i]].name,
                   Record(price[ix[i]], None, compliance_markets[ix[i]].unit,
                          "placeholder - wire an API"))] :
         price \in [S -> {None} \cup {Num(p) : p \in PriceVals}]} :
      S \in {T \in SUBSET (1..Len(compliance_markets)) : Cardinality(T) <= MaxRecords}}

\* what fetch_yfinance(currencies) can hold for a pair: no key, None, an
\* empty frame, a frame of closes
PairStates == {"absent", "None", "empty"} \cup RateVals
PairItem(name, st) ==
    IF st = "absent" THEN <<>>
    ELSE IF st = "None" THEN <<Item(name, None)>>
    ELSE IF st = "empty" THEN <<Item(name, DataFrame(OHLCV, <<>>))>>
    ELSE <<Item(name, QuoteFrame(st))>>
PairStateItem(name, k) ==
    IF k = 1 THEN PairItem(name, "absent")
    ELSE IF k = 2 THEN PairItem(name, "None")
    ELSE IF k = 3 THEN PairItem(name, "empty")
    ELSE IF k = 4 THEN <<Item(name, QuoteFrame(1250))>>
    ELSE <<Item(name, QuoteFrame(1234))>>

FxInputs == {PairStateItem("GBP/USD", g) \o PairStateItem("USD/CNY", c) : g \in 1..5, c \in 1..5}

InitConv ==
    /\ pc = "loaded" /\ days = 30 /\ raised = FALSE
    /\ FetchIdle /\ CacheIdle /\ PdfIdle
    /\ commod_data = <<>>
    /\ fx_data \in FxInputs
    /\ compliance_data \in ComplianceInputs
    /\ to_usd \in BOOLEAN
    /\ comp_df = <<>>

\* lines 237-240
ShowCompliance ==
    /\ pc = "loaded"
    /\ LET t == compliance_summary_table(compliance_data, fx_data, to_usd)
       IN  /\ comp_df' = t.rows
           /\ raised' = t.raised
    /\ pc' = "shown"
    /\ UNCHANGED <<days, fetchVars, commod_data, fx_data, compliance_data, to_usd,
                   cacheVars, pages>>

\* the selectbox of line 154 is changed and the script runs again
SelectConvertTo ==
    /\ pc = "shown"
    /\ to_usd' = ~to_usd
    /\ comp_df' = <<>>
    /\ raised' = FALSE
    /\ pc' = "loaded"
    /\ UNCHANGED <<days, fetchVars, commod_data, fx_data, compliance_data, cacheVars, pages>>

NextConv == ShowCompliance \/ SelectConvertTo

SpecConv == InitConv /\ [][NextConv]_vars

(* ---- fetch_all_data behind its cache ---- *)

AllTickers == TickersOf(commodities) \cup TickersOf(currencies) \cup TickersOf(compliance_markets)
Requests == AllTickers \X Windows

\* what the market-data source does at one moment: it is down, it has
\* nothing, or it quotes (differently per window, and from one moment to the
\* next)
Quotes(k) == [x \in Requests |-> DataFrame(OHLCV, <<Row(1000 * x[2], 0), Row(1000 * x[2] + k, 0)>>)]
Upstreams ==
    {[x \in Requests |-> Raise], [x \in Requests |-> DataFrame(OHLCV, <<>>)],
     Quotes(1), Quotes(2)}

TickSteps == {900, 1799}

InitCache ==
    /\ pc = "start" /\ days = 30 /\ raised = FALSE
    /\ FetchIdle /\ GlobalsIdle /\ PdfIdle
    /\ now = 0
    /\ cache = [w \in Windows |-> None]
    /\ yf_cache = [k \in {"commodities", "currencies"} \X Windows |-> None]
    /\ last_call = NoCall

Tick ==
    \E d \in TickSteps :
        /\ now + d <= MaxClock
        /\ now' = now + d
        /\ pc' = "waiting"
        /\ UNCHANGED <<days, fetchVars, raised, globalVars, cache, yf_cache,
                       last_call, pages>>

\* lines 148 and 160-161: the slider is at w and the script calls the
\* memoised fetch_all_data(days)
CallFetchAllData ==
    \E w \in Windows, yf \in Upstreams :
        LET hit == Fresh(cache[w], fetch_all_data_ttl, now)
            b == fetch_all_data_body(w, yf, yf_cache, now)
            value == IF hit THEN cache[w].value ELSE b.value
        IN  /\ cache' = IF hit THEN cache ELSE [cache EXCEPT ![w] = CacheEntry(b.value, now)]
            /\ yf_cache' = IF hit THEN yf_cache ELSE b.store
            /\ last_call' = [lookup |-> IF hit THEN "hit"
                                        ELSE IF cache[w] = None THEN "miss" ELSE "expired",
                             downloads |-> IF hit THEN <<>> ELSE b.downloads]
            /\ days' = w
            /\ commod_data' = value[1]
            /\ fx_data' = value[2]
            /\ compliance_data' = value[3]
            /\ pc' = "loaded"
            /\ UNCHANGED <<fetchVars, raised, to_usd, comp_df, now, pages>>

NextCache == Tick \/ CallFetchAllData

SpecCache == InitCache /\ [][NextCache]_vars

(* ---- generate_pdf_snapshot ---- *)

Series == DataFrame(OHLCV, <<Row(100000, 1000), Row(110000, 2000)>>)

\* dicts over the first n entries of a catalog, each value from `values`
DictsOver(cat, n, values) ==
    {[i \in 1..Len(Prefix(cat, n)) |-> Item(cat[i].name, v[i])] :
        v \in [1..Len(Prefix(cat, n)) -> values]}

\* a compliance record as lines 131-140 build it from a history
RecordOf(m, hist) ==
    IF hist = None \/ empty(hist)
    THEN Record(None, hist, m.unit, "placeholder - wire an API")
    ELSE Record(iloc(hist, "Close", 1), hist, m.unit, "Ticker " \o m.ticker)

InitPdf ==
    /\ pc = "loaded" /\ raised = FALSE
    /\ FetchIdle /\ CacheIdle /\ PdfIdle
    /\ days \in Windows
    /\ to_usd \in BOOLEAN
    /\ comp_df = <<>>
    /\ commod_data \in DictsOver(commodities, NTrend, {None, Series})
    /\ fx_data \in DictsOver(currencies, NOther, {None, DataFrame(OHLCV, <<>>), Series})
    /\ \E h \in DictsOver(compliance_markets, NOther, {None, DataFrame(OHLCV, <<>>), Series}) :
          compliance_data =
              [i \in 1..Len(h) |-> Item(h[i].name, RecordOf(compliance_markets[i], h[i].value))]

\* lines 393-399: the button is pressed
GeneratePdf ==
    /\ pc = "loaded"
    /\ LET comp == compliance_summary_table(compliance_data, fx_data, to_usd)
       IN  IF comp.raised
           THEN /\ raised' = TRUE
                /\ pages' = <<>>
                /\ comp_df' = <<>>
                /\ pc' = "failed"
           ELSE /\ raised' = FALSE
                /\ comp_df' = comp.rows
                /\ pages' = generate_pdf_snapshot(summary_from_yf_dict(commod_data),
                                summary_from_yf_dict(fx_data), comp.rows,
                                commod_data, fx_data, compliance_data, days)
                /\ pc' = "pdf"
    /\ UNCHANGED <<days, fetchVars, commod_data, fx_data, compliance_data, to_usd, cacheVars>>

\* the script is run again and the button is there to press
RerunPdf ==
    /\ pc \in {"pdf", "failed"}
    /\ pc' = "loaded"
    /\ raised' = FALSE
    /\ pages' = <<>>
    /\ comp_df' = <<>>
    /\ UNCHANGED <<days, fetchVars, commod_data, fx_data, compliance_data, to_usd, cacheVars>>

NextPdf == GeneratePdf \/ RerunPdf

SpecPdf == InitPdf /\ [][NextPdf]_vars

----------------------------------------------------------------------------
(* Properties *)

Abs(x) == IF x < 0 THEN -x ELSE x
StartsWith(s, p) == Len(s) >= Len(p) /\ SubSeq(s, 1, Len(p)) = p
Assets(table) == [i \in 1..Len(table) |-> table[i].Asset]

\* a failed download: an exception or an empty result
Failed(resp) == resp.kind = "raise" \/ resp = None \/ empty(resp)

(* C1: after fetch_yfinance followed by summary_from_yf_dict the summary
   table has exactly one row per instrument of the catalog, in the catalog's
   order, whatever each instrument's download did. *)
C1_OneRowPerInstrument ==
    pc = "summarised" => Assets(rows) = Names(catalog)

(* C7: the fetch batch never raises, every instrument of the catalog is
   attempted whatever the others did, and a failed instrument is recorded as
   "no data" (None) in the returned mapping, the mapping following the
   catalog's order. *)
C7_FailureRecordedAsNoData ==
    pc \in {"fetched", "summarised"} =>
        /\ ~raised
        /\ downloads = [i \in 1..Len(catalog) |-> <<catalog[i].ticker, days>>]
        /\ Keys(results) = Names(catalog)
        /\ \A i \in 1..Len(catalog) :
              Failed(upstream[<<catalog[i].ticker, days>>]) => results[i].value = None

(* C8: for every non-empty series summary_from_yf_dict gives last_price = the
   most recent close and change_pct = (last - prev) / prev * 100 rounded to 2
   decimals (the nearest hundredth), prev being the close before the last
   when there is one and the last close otherwise; [100, 110] gives 10.0, a
   one-point series gives 0.0, and a previous close of 0 still gives a
   number. *)
C8_ChangePct ==
    pc = "summarised" =>
        /\ Len(rows) = Len(results)
        /\ \A i \in 1..Len(results) :
              LET df == results[i].value
              IN  (df # None /\ ~empty(df)) =>
                    LET n == Len(df.rows)
                        last == df.rows[n].Close
                        prev == IF n > 1 THEN df.rows[n - 1].Close ELSE last
                        pct == rows[i].ChangePct
                    IN  /\ rows[i].LastPrice = Num(last)
                        /\ IsNum(pct)
                        /\ prev # 0 =>
                              2 * Abs(pct.val * prev - (last - prev) * 10000) <= Abs(prev)
                        /\ n = 1 => pct = Num(0)
                        /\ (n = 2 /\ prev = 100000 /\ last = 110000) => pct = Num(1000)

C8_Witness ==
    /\ pc = "summarised"
    /\ Len(results) = 1 /\ results[1].value # None
    /\ [i \in 1..Len(results[1].value.rows) |-> results[1].value.rows[i].Close]
          = <<19500, 19000>>
    /\ rows[1].ChangePct = Num(-256)

\* the FX pair a unit's currency is wired to (lines 198-212)
IsPound(unit) == Contains("(pound)", unit)
IsYuan(unit) == Contains("RMB", unit) \/ Contains("CNY", unit)
PairOf(unit) == IF IsPound(unit) THEN "GBP/USD" ELSE "USD/CNY"
\* a currency other than USD that no pair is wired to
Unwired(unit) == ~Contains("US$", unit) /\ ~IsPound(unit) /\ ~IsYuan(unit)
NoSeries(pair) == ~Has(fx_data, pair) \/ Get(fx_data, pair) = None
HasSeries(pair) == Has(fx_data, pair) /\ Get(fx_data, pair) # None /\ ~empty(Get(fx_data, pair))
LastClose(pair) == Get(fx_data, pair).rows[Len(Get(fx_data, pair).rows)].Close

Shown == pc = "shown" /\ ~raised

(* C3: with to_usd set, a record with a price whose pair is recognized but
   has no series in the fetched FX mapping, or whose currency is wired to no
   pair, gets no USD price and a non-empty conversion note. *)
C3_MissingPairNoted ==
    (Shown /\ to_usd) =>
        \A i \in 1..Len(compliance_data) :
            LET m == compliance_data[i].value
            IN  (/\ m.price # None
                 /\ \/ Unwired(m.unit)
                    \/ (IsPound(m.unit) \/ IsYuan(m.unit)) /\ NoSeries(PairOf(m.unit)))
                => (comp_df[i].LastPriceUSD = None /\ comp_df[i].Note # "")

\* a record with a price, in pounds or yuan, whose pair has a series
Convertible(i) ==
    LET m == compliance_data[i].value
    IN  /\ m.price # None
        /\ IsPound(m.unit) \/ IsYuan(m.unit)
        /\ HasSeries(PairOf(m.unit))

(* C4 as stated: the USD price of a convertible record equals the price
   multiplied by the most recent close of its pair, and the note is
   "converted using <pair>". *)
C4_ExactProduct ==
    (Shown /\ to_usd) =>
        \A i \in 1..Len(compliance_data) :
            Convertible(i) =>
                LET m == compliance_data[i].value
                    usd == comp_df[i].LastPriceUSD
                IN  /\ IsNum(usd)
                    /\ usd.val * 100 = m.price.val * LastClose(PairOf(m.unit))
                    /\ comp_df[i].Note = "converted using " \o PairOf(m.unit)

(* C4 as amended: the USD price of a convertible record is the price
   multiplied by the most recent close of its pair, rounded to 4 decimals
   (the nearest ten-thousandth), and the note is "converted using <pair>". *)
C4_RoundedProduct ==
    (Shown /\ to_usd) =>
        \A i \in 1..Len(compliance_data) :
            Convertible(i) =>
                LET m == compliance_data[i].value
                    usd == comp_df[i].LastPriceUSD
                IN  /\ IsNum(usd)
                    /\ 2 * Abs(usd.val * 100 - m.price.val * LastClose(PairOf(m.unit))) <= 100
                    /\ comp_df[i].Note = "converted using " \o PairOf(m.unit)

\* price 80 in pounds at a GBP/USD close of 1.25 gives 100.0
C4_Witness ==
    /\ Shown /\ to_usd
    /\ \E i \in 1..Len(compliance_data) :
          /\ Convertible(i)
          /\ IsPound(compliance_data[i].value.unit)
          /\ compliance_data[i].value.price = Num(80000)
          /\ LastClose("GBP/USD") = 1250
          /\ comp_df[i].LastPriceUSD = Num(1000000)

(* C5: in every row of compliance_summary_table the USD price is set if and
   only if the note says "converted using ..."; with to_usd false no row has
   a USD price. *)
C5_UsdIffConvertedNote ==
    Shown =>
        /\ Len(comp_df) = Len(compliance_data)
        /\ \A i \in 1..Len(comp_df) :
              /\ (comp_df[i].LastPriceUSD # None) <=> StartsWith(comp_df[i].Note, "converted using")
              /\ ~to_usd => comp_df[i].LastPriceUSD = None

C5_Witness ==
    /\ Shown
    /\ \E i, j \in 1..Len(comp_df) :
          /\ comp_df[i].LastPriceUSD # None
          /\ comp_df[j].LastPriceUSD = None /\ comp_df[j].Note # ""

\* a record of a market priced in US$ that has a price
UsdPriced(i) ==
    compliance_data[i].value.unit = "US$/t" /\ compliance_data[i].value.price # None

(* C10 as stated: with to_usd set, a record whose unit is "US$/t" and that
   has a price gets a USD price equal to its local price. *)
C10_UsdIdentity ==
    (Shown /\ to_usd) =>
        \A i \in 1..Len(compliance_data) :
            UsdPriced(i) =>
                comp_df[i].LastPriceUSD = Num(compliance_data[i].value.price.val * 10)

(* C10 as amended: with to_usd set, a record of compliance_markets whose
   unit is "US$/t" and that has a price bypasses the conversion: its row has
   no USD price and an empty note, and carries the price unchanged as the
   local price. *)
C10_UsdBypass ==
    (Shown /\ to_usd) =>
        \A i \in 1..Len(compliance_data) :
            UsdPriced(i) =>
                /\ comp_df[i].LastPriceUSD = None
                /\ comp_df[i].Note = ""
                /\ comp_df[i].LastPriceLocal = compliance_data[i].value.price

C10_Witness ==
    /\ Shown /\ to_usd
    /\ \E i \in 1..Len(compliance_data) :
          UsdPriced(i) /\ comp_df[i].LastPriceLocal = Num(80000)

\* the triple the last fetch_all_data call returned (line 161)
Returned == <<commod_data, fx_data, compliance_data>>

\* one download per ticker of the three catalogs, in their order
TickerRequests(cat, w) ==
    LET t == SelectSeq(cat, LAMBDA e : e.ticker # NoTicker)
    IN  [i \in 1..Len(t) |-> <<t[i].ticker, w>>]
FullFetch(w) ==
    TickerRequests(commodities, w) \o TickerRequests(currencies, w)
        \o TickerRequests(compliance_markets, w)

\* every quoted frame of a fetched dict was downloaded for window w
QuotedFor(d, w) ==
    \A i \in 1..Len(d) :
        (d[i].value # None /\ ~empty(d[i].value)) => d[i].value.rows[1].Close = 1000 * w

(* C2: a fetch_all_data(W) call made while the entry for W is less than 30
   minutes (1800 s) old returns the entry's content, downloads nothing and
   leaves the store alone; a call that finds no entry for W or an expired one
   performs exactly one fetch-all (one download per ticker), returns its
   result and replaces the entry for W only; what is returned for W was
   downloaded for W. *)
C2_CacheTtl ==
    [][pc' = "loaded" =>
        LET w == days'
            e == cache[w]
            unexpired == e # None /\ now - e.stamp < 1800
        IN  /\ unexpired =>
                  /\ Returned' = e.value
                  /\ last_call'.downloads = <<>>
                  /\ cache' = cache
            /\ ~unexpired =>
                  /\ last_call'.downloads = FullFetch(w)
                  /\ cache'[w] = CacheEntry(Returned', now)
                  /\ \A v \in Windows \ {w} : cache'[v] = cache[v]
            /\ QuotedFor(commod_data', w) /\ QuotedFor(fx_data', w)
      ]_vars

\* a call found an expired entry and fetched again, quotes and all
C2_Witness ==
    /\ pc = "loaded" /\ last_call.lookup = "expired"
    /\ Len(commod_data) = Len(commodities)
    /\ cache[days].stamp = now
    /\ \E v \in Windows \ {days} : cache[v] # None /\ cache[v].stamp < now

\* the items of a dict whose series is there and not empty
Present(d) == SelectSeq(d, LAMBDA it : it.value # None /\ ~empty(it.value))
Histories ==
    SelectSeq(compliance_data,
              LAMBDA it : it.value.history # None /\ ~empty(it.value.history))
AtMost6(n) == IF n > 6 THEN 6 ELSE n
IsTrend(page, title, name) ==
    page.kind = "trend" /\ page.title = title /\ page.name = name

(* C6: generate_pdf_snapshot saves, in this order, the title page, the
   commodities, FX and compliance summary-table pages, then for commodities,
   FX and compliance in turn one trend page for each of the first 6 (at
   most) instruments whose series or history is present and non-empty, and
   the notes page last; with every series absent that is 5 pages. *)
C6_PageOrder ==
    pc = "pdf" =>
        LET nC == AtMost6(Len(Present(commod_data)))
            nF == AtMost6(Len(Present(fx_data)))
            nH == AtMost6(Len(Histories))
        IN  /\ ~raised
            /\ Len(pages) = 4 + nC + nF + nH + 1
            /\ pages[1].kind = "title"
            /\ pages[2].kind = "table" /\ pages[2].title = "Commodities Summary"
            /\ pages[3].kind = "table" /\ pages[3].title = "FX Summary"
            /\ pages[4].kind = "table"
            /\ pages[4].title = "Compliance Carbon Markets Summary"
            /\ \A i \in 1..nC :
                  IsTrend(pages[4 + i], "Commodities Trend", Present(commod_data)[i].name)
            /\ \A i \in 1..nF :
                  IsTrend(pages[4 + nC + i], "FX Trend", Present(fx_data)[i].name)
            /\ \A i \in 1..nH :
                  IsTrend(pages[4 + nC + nF + i], "Compliance Market Trends",
                          Histories[i].name)
            /\ pages[Len(pages)].kind = "notes"

\* seven commodity series are there: six get a page, FX and compliance follow
C6_Witness ==
    /\ pc = "pdf"
    /\ Len(Present(commod_data)) = 7
    /\ Len(Present(fx_data)) = 1 /\ Len(Histories) = 1
    /\ Len(pages) = 13

====
